---- MODULE Spec2Model ----
(***************************************************************************)
(* NeuralGreedyAgent (genrl/agents/bandits/contextual/neural_greedy.py):   *)
(* an epsilon-greedy contextual bandit agent over a neural reward model.   *)
(*                                                                         *)
(* The state is the agent's fields.  One further variable, out, records    *)
(* what the operation that ran last did: its name and arguments, the value *)
(* it returned, the torch.rand draw it made and the calls it made on its   *)
(* collaborators (the model, the transition database, torch.randint).      *)
(* pulls counts the selections of each action made by the initial phase.   *)
(*                                                                         *)
(* Probabilities are counted in units of 1/Denom: torch.rand draws one of  *)
(* 0/Denom .. (Denom-1)/Denom, and epsilon = Denom stands for 1.0.         *)
(***************************************************************************)
EXTENDS Integers, Sequences, FiniteSets, TLC

VARIABLES n_actions, init_pulls, eval_with_dropout, epsilon,
          model, db, t, update_count, pulls, out

vars == <<n_actions, init_pulls, eval_with_dropout, epsilon,
          model, db, t, update_count, pulls, out>>

----------------------------------------------------------------------------
(* Bounds of the model *)

MaxActions == 2      \* the bandit has 1..MaxActions actions
MaxPulls == 2        \* init_pulls, when given, is in 1..MaxPulls
Denom == 2           \* resolution of torch.rand and of epsilon
MaxOps == 2          \* calls other than initial-phase selections

Contexts == {0, 1}   \* context vectors
Rewards == {0, 1}    \* rewards received and rewards predicted

(* Defaults of the keyword arguments *)

DefaultInitPulls == 3
DefaultEpsilon == 0
DefaultEvalWithDropout == FALSE
DefaultBatchSize == 512
DefaultTrainEpochs == 20

----------------------------------------------------------------------------
(* Optional arguments: <<>> is an argument not given, <<v>> is v given. *)

Opt(S) == {<<>>} \cup {<<v>> : v \in S}

Get(o, default) == IF o = <<>> THEN default ELSE o[1]

Actions == 0 .. (n_actions - 1)

\* select_action calls made after the initial phase
PostCalls ==
    IF t >= n_actions * init_pulls THEN t - n_actions * init_pulls + 1 ELSE 0

\* Calls made so far, the selections of the initial phase not counted
Ops == Len(db) + update_count + PostCalls

----------------------------------------------------------------------------
(* The collaborators *)

\* torch.rand(1): uniform on [0, 1)
RandDraws == 0 .. (Denom - 1)

\* ArgMax taking the smallest value instead of the largest
ArgMin(pred) ==
    CHOOSE a \in DOMAIN pred :
        /\ \A b \in DOMAIN pred : pred[a] <= pred[b]
        /\ \A b \in DOMAIN pred : b < a => pred[a] < pred[b]

\* torch.argmax: the index of the first maximal value
ArgMax(pred) ==
    CHOOSE a \in DOMAIN pred :
        /\ \A b \in DOMAIN pred : pred[b] <= pred[a]
        /\ \A b \in DOMAIN pred : b < a => pred[b] < pred[a]

\* TransitionDB.add: the database is the list of the transitions added
DbAdd(d, context, action, reward) == Append(d, <<context, action, reward>>)

\* NeuralBanditModel.train_model(db, epochs, batch_size): one more training
\* run; the run leaves use_dropout at a value of its own choosing
TrainModel(m, d, epochs, batch_size) ==
    {[use_dropout |-> u, trained |-> m.trained + 1] : u \in BOOLEAN}

\* NeuralBanditModel.forward: predicted rewards, one per action
Forward(m, context) == [Actions -> Rewards]

\* A call made on a collaborator: for the model's forward pass recv is the
\* model as it is when called, for the other calls it is not recorded
Call(fn, recv, args, result) ==
    [fn |-> fn, recv |-> recv, args |-> args, result |-> result]

\* What an operation did
Out(name, args, ret, rand, calls) ==
    [op |-> name, args |-> args, ret |-> ret, rand |-> rand, calls |-> calls]

----------------------------------------------------------------------------
(* __init__ *)

Init ==
    /\ n_actions \in 1 .. MaxActions
    /\ \E kw \in Opt(1 .. MaxPulls) : init_pulls = Get(kw, DefaultInitPulls)
    /\ \E kw \in Opt(BOOLEAN) :
           eval_with_dropout = Get(kw, DefaultEvalWithDropout)
    /\ \E kw \in Opt({Denom \div 2, Denom, Denom + 1}) :
           epsilon = Get(kw, DefaultEpsilon)
    /\ model \in {[use_dropout |-> u, trained |-> 0] : u \in BOOLEAN}
    /\ db = <<>>
    /\ t = 0
    /\ update_count = 0
    /\ pulls = [a \in Actions |-> 0]
    /\ out = Out("__init__", <<>>, <<>>, <<>>, <<>>)

----------------------------------------------------------------------------
(* select_action *)

\* SetDropout with the assignment left out
SetDropout_skipped(m) == m

\* self.model.use_dropout = self.eval_with_dropout
SetDropout(m) == [m EXCEPT !.use_dropout = eval_with_dropout]

\* self.t < self.n_actions * self.init_pulls
InInitialPhase(t1) == t1 < n_actions * init_pulls

\* TakesRandom comparing with <= instead of <
TakesRandom_le(r) == r <= epsilon

\* torch.rand(1) < self.epsilon
TakesRandom(r) == r < epsilon

select_action(context) ==
    LET m1 == SetDropout(model)
        t1 == t + 1
    IN  /\ InInitialPhase(t1) \/ Ops < MaxOps
        /\ model' = m1
        /\ t' = t1
        /\ IF InInitialPhase(t1)
           THEN /\ out' = Out("select_action", <<context>>,
                               <<t1 % n_actions>>, <<>>, <<>>)
                /\ pulls' = [pulls EXCEPT ![t1 % n_actions] = @ + 1]
           ELSE /\ \E r \in RandDraws :
                     IF TakesRandom(r)
                     THEN \E a \in Actions :
                              out' = Out("select_action", <<context>>, <<a>>, <<r>>,
                                         <<Call("randint", <<>>,
                                                <<n_actions>>, a)>>)
                     ELSE \E pred \in Forward(m1, context) :
                              out' = Out("select_action", <<context>>,
                                         <<ArgMax(pred)>>, <<r>>,
                                         <<Call("forward", m1,
                                                <<context>>, pred)>>)
                /\ pulls' = pulls
        /\ UNCHANGED <<n_actions, init_pulls, eval_with_dropout, epsilon,
                       db, update_count>>

----------------------------------------------------------------------------
(* update_db *)

\* update_db passing the reward and the action in each other's place
update_db_swapped(context, action, reward) ==
    /\ Ops < MaxOps
    /\ db' = DbAdd(db, context, reward, action)
    /\ out' = Out("update_db", <<context, action, reward>>, <<>>, <<>>,
                   <<Call("add", <<>>, <<context, reward, action>>, <<>>)>>)
    /\ UNCHANGED <<n_actions, init_pulls, eval_with_dropout, epsilon,
                   model, t, update_count, pulls>>

update_db(context, action, reward) ==
    /\ Ops < MaxOps
    /\ db' = DbAdd(db, context, action, reward)
    /\ out' = Out("update_db", <<context, action, reward>>, <<>>, <<>>,
                   <<Call("add", <<>>, <<context, action, reward>>, <<>>)>>)
    /\ UNCHANGED <<n_actions, init_pulls, eval_with_dropout, epsilon,
                   model, t, update_count, pulls>>

----------------------------------------------------------------------------
(* update_params *)

\* update_params passing batch_size and train_epochs in each other's place
update_params_swapped(action, batch_size, train_epochs) ==
    LET bs == Get(batch_size, DefaultBatchSize)
        te == Get(train_epochs, DefaultTrainEpochs)
    IN  /\ Ops < MaxOps
        /\ update_count' = update_count + 1
        /\ model' \in TrainModel(model, db, bs, te)
        /\ out' = Out("update_params", <<action, batch_size, train_epochs>>,
                       <<>>, <<>>,
                       <<Call("train_model", <<>>, <<db, bs, te>>, <<>>)>>)
        /\ UNCHANGED <<n_actions, init_pulls, eval_with_dropout, epsilon,
                       db, t, pulls>>

update_params(action, batch_size, train_epochs) ==
    LET bs == Get(batch_size, DefaultBatchSize)
        te == Get(train_epochs, DefaultTrainEpochs)
    IN  /\ Ops < MaxOps
        /\ update_count' = update_count + 1
        /\ model' \in TrainModel(model, db, te, bs)
        /\ out' = Out("update_params", <<action, batch_size, train_epochs>>,
                       <<>>, <<>>,
                       <<Call("train_model", <<>>, <<db, te, bs>>, <<>>)>>)
        /\ UNCHANGED <<n_actions, init_pulls, eval_with_dropout, epsilon,
                       db, t, pulls>>

----------------------------------------------------------------------------

\* Arguments given to update_params
ActionArgs == {0}
BatchSizes == {1}
TrainEpochs == {2}

Next ==
    \/ \E context \in Contexts : select_action(context)
    \/ \E context \in Contexts, action \in Actions, reward \in Rewards :
           update_db(context, action, reward)
    \/ \E action \in Opt(ActionArgs), batch_size \in Opt(BatchSizes),
          train_epochs \in Opt(TrainEpochs) :
           update_params(action, batch_size, train_epochs)

Spec == Init /\ [][Next]_vars

----------------------------------------------------------------------------
(* Properties *)

\* The operation that ran last is a select_action call made after the
\* initial phase
PostSelect == out.op = "select_action" /\ PostCalls > 0

\* The operation that ran last made exactly one collaborator call, to fn
Called(fn) == Len(out.calls) = 1 /\ out.calls[1].fn = fn

\* a is an action whose predicted reward is the highest of pred
Highest(pred, a) ==
    /\ a \in DOMAIN pred
    /\ \A b \in DOMAIN pred : pred[b] <= pred[a]

\* C1: once a selection has been made by the model or at random, the initial
\* phase has selected each action exactly init_pulls times.
C1_EachActionPulledInitPullsTimes ==
    PostCalls > 0 => \A a \in Actions : pulls[a] = init_pulls

\* C2: a select_action call made after the initial phase returns either the
\* action drawn at random, and then its torch.rand draw was below epsilon, or
\* an action with the highest reward the model predicts for the given context.
C2_RandomOrArgmax ==
    PostSelect =>
        /\ Len(out.rand) = 1 /\ Len(out.ret) = 1 /\ Len(out.calls) = 1
        /\ out.ret[1] \in Actions
        /\ \/ /\ out.calls[1].fn = "randint"
              /\ out.rand[1] < epsilon
              /\ out.ret[1] = out.calls[1].result
           \/ /\ out.calls[1].fn = "forward"
              /\ out.calls[1].args = out.args
              /\ DOMAIN out.calls[1].result = Actions
              /\ Highest(out.calls[1].result, out.ret[1])

C2_Witness ==
    /\ PostSelect
    /\ Called("forward")
    /\ epsilon > 0
    /\ \E a, b \in Actions : out.calls[1].result[a] < out.calls[1].result[b]

\* C3: with the default epsilon (0.0) a select_action call made after the
\* initial phase never draws a random action and returns an action with the
\* highest predicted reward; with epsilon >= 1 it always draws a random action
\* and makes no forward pass.
C3_EpsilonExtremes ==
    PostSelect =>
        /\ epsilon = 0 =>
              /\ Called("forward")
              /\ Highest(out.calls[1].result, out.ret[1])
        /\ epsilon >= Denom =>
              /\ Called("randint")
              /\ \A i \in 1 .. Len(out.calls) : out.calls[i].fn # "forward"

C3_Witness ==
    /\ PostSelect
    /\ epsilon = 0
    /\ out.rand = <<0>>
    /\ Called("forward")

\* C4: an update_db(context, action, reward) call appends exactly
\* (context, action, reward) to the transition database and leaves t,
\* update_count and the model as they are; no other operation changes the
\* database.
C4_UpdateDbAppendsOneTransition ==
    [][IF out'.op = "update_db"
       THEN /\ db' = Append(db, out'.args)
            /\ UNCHANGED <<t, update_count, model>>
       ELSE db' = db]_vars

C4_Witness ==
    /\ out.op = "update_db"
    /\ Len(db) = 2
    /\ db[1] # db[2]
    /\ db[2][2] # db[2][3]
    /\ t > 0

\* C5: an update_params call makes exactly one train_model call, on the
\* agent's database with the given train_epochs and batch_size (20 and 512
\* when not given), and counts one update; what is trained and the agent's
\* state after the call do not depend on the action argument.
C5_UpdateParamsTrainsOnce ==
    [][out'.op = "update_params" =>
          LET te == IF out'.args[3] = <<>> THEN 20 ELSE out'.args[3][1]
              bs == IF out'.args[2] = <<>> THEN 512 ELSE out'.args[2][1]
          IN  /\ Len(out'.calls) = 1
              /\ out'.calls[1].fn = "train_model"
              /\ out'.calls[1].args = <<db, te, bs>>
              /\ model'.trained = model.trained + 1
              /\ update_count' = update_count + 1
              /\ UNCHANGED <<db, t, pulls, n_actions, init_pulls,
                             eval_with_dropout, epsilon>>]_vars

C5_Witness ==
    /\ out.op = "update_params"
    /\ out.args[1] # <<>>
    /\ out.args[2] # <<>>
    /\ out.args[3] = <<>>
    /\ db # <<>>

\* C6: whenever select_action runs the model's forward pass, the model's
\* use_dropout flag is the agent's eval_with_dropout, whatever the flag was
\* before the call.
C6_ForwardUsesEvalWithDropout ==
    \A i \in 1 .. Len(out.calls) :
        out.calls[i].fn = "forward" =>
            out.calls[i].recv.use_dropout = eval_with_dropout

C6_Witness ==
    /\ Called("forward")
    /\ out.calls[1].recv.trained > 0
    /\ eval_with_dropout = FALSE

====
